---- MODULE Spec2Model ----
(***************************************************************************)
(* Model of redlock-rs (src/src/redlock.rs, scripts.rs, util.rs): the      *)
(* Redlock coordinator over N Redis servers.  Every server request and     *)
(* every sleep is one step of the calling client, so that the calls of     *)
(* several clients interleave at exactly the points where the code blocks. *)
(* Time is a global millisecond clock; a key whose PX time has passed is   *)
(* removed by the clock step, as Redis hides it.                           *)
(***************************************************************************)
EXTENDS Integers, FiniteSets, Sequences, TLC

\* ---- bounds of the model ------------------------------------------------
N == 3            \* number of servers (Config.addrs.len())
RetryCount == 2   \* Config.retry_count of the modelled instance
MaxTime == 2      \* the clock stops here
MaxCalls == 3     \* lock/extend/unlock calls made by all callers together
MaxDelay == 2     \* retry_delay and retry_jitter of a Config: 0..MaxDelay ms

Servers == 1..N
Clients == {"a", "b"}
Callers == {"a"}  \* the callers of the single-caller specification
Resources == {"R"}
TTLs == {2, 4, 5} \* milliseconds, the ttl arguments callers pass
ContendTTLs == {4}

\* The sets of servers that refuse a caller's connections during one call:
\* none, the first, the last, all.
Outages == {{}, {1}, {N}, Servers}

\* Config of the modelled instance (Config, redlock.rs:43-51).  drift_factor
\* is the fraction num/den; 1/8 is exact as an f32.
config ==
    [ retry_count |-> RetryCount,
      retry_delay |-> 1,
      retry_jitter |-> 1,
      drift_factor |-> [num |-> 1, den |-> 8] ]

\* The Configs handed to Redlock::new.  An address either parses ("url") or
\* makes redis::Client::open fail ("bad"); lists of up to N addresses.
AddrLists == UNION {[1..n -> {"url", "bad"}] : n \in 0..N}

Configs ==
    { [ addrs |-> a, retry_count |-> config.retry_count, retry_delay |-> d,
        retry_jitter |-> j, drift_factor |-> config.drift_factor ] :
          a \in AddrLists, d \in 0..MaxDelay, j \in 0..MaxDelay }

\* The Config of the modelled instance: config with N addresses that parse.
ModelConfig ==
    [ addrs |-> [i \in 1..N |-> "url"], retry_count |-> config.retry_count,
      retry_delay |-> config.retry_delay, retry_jitter |-> config.retry_jitter,
      drift_factor |-> config.drift_factor ]

NoKey == [value |-> <<>>, expire |-> 0]
NoLease == [resource_name |-> "", value |-> <<>>, expiration |-> 0]

\* ---- pure functions -----------------------------------------------------

\* Redlock::new: quorum = floor(len / 2) + 1
Quorum == (N \div 2) + 1

\* Redlock::new with the quorum computed as floor(len / 2)
newHalfQuorum(c) ==
    IF Len(c.addrs) = 0 THEN [tag |-> "NoServerError"]
    ELSE IF \E i \in 1..Len(c.addrs) : c.addrs[i] = "bad" THEN [tag |-> "RedisError"]
    ELSE [ tag |-> "Ok",
           clients |-> Len(c.addrs),
           retry_count |-> c.retry_count,
           retry_delay |-> c.retry_delay,
           retry_jitter |-> c.retry_jitter,
           drift_factor |-> c.drift_factor,
           quorum |-> Len(c.addrs) \div 2 ]

\* Redlock::new(config): the Result it returns.  NoServerError for an empty
\* list, the RedisError of Client::open for an address that does not parse,
\* else the instance; retry_delay and retry_jitter are copied unexamined.
new(c) ==
    IF Len(c.addrs) = 0 THEN [tag |-> "NoServerError"]
    ELSE IF \E i \in 1..Len(c.addrs) : c.addrs[i] = "bad" THEN [tag |-> "RedisError"]
    ELSE [ tag |-> "Ok",
           clients |-> Len(c.addrs),
           retry_count |-> c.retry_count,
           retry_delay |-> c.retry_delay,
           retry_jitter |-> c.retry_jitter,
           drift_factor |-> c.drift_factor,
           quorum |-> (Len(c.addrs) \div 2) + 1 ]

NotBuilt == [tag |-> "NotBuilt"]

\* util::num_milliseconds of a Duration given in whole milliseconds
num_milliseconds(ttl) == ((ttl \div 1000) * 1000) + (ttl % 1000)

\* f64::round, half away from zero, of the non-negative fraction n/d
Round(n, d) == IF 2 * (n % d) >= d THEN (n \div d) + 1 ELSE n \div d

\* request(): drift = round(drift_factor * num_milliseconds(ttl)) + 2
DriftNoMargin(ttl) ==
    Round(config.drift_factor.num * num_milliseconds(ttl), config.drift_factor.den)

Drift(ttl) ==
    Round(config.drift_factor.num * num_milliseconds(ttl), config.drift_factor.den) + 2

\* request(): expiration: start + ttl - drift
Expiration(start, ttl) == start + ttl - Drift(ttl)

\* ---- the three scripts (scripts.rs), on one key of one server ------------
\* Each yields the key's entry afterwards and whether the script applied.

\* set KEYS[1] ARGV[1] NX PX ARGV[2]
LockScript(entry, value, ttl, time) ==
    IF entry = NoKey
    THEN [entry |-> [value |-> value, expire |-> time + ttl], applied |-> TRUE]
    ELSE [entry |-> entry, applied |-> FALSE]

UnlockScriptNoCompare(entry, value) ==
    [entry |-> NoKey, applied |-> entry # NoKey]

\* if get KEYS[1] == ARGV[1] then del KEYS[1] else 0
UnlockScript(entry, value) ==
    IF entry # NoKey /\ entry.value = value
    THEN [entry |-> NoKey, applied |-> TRUE]
    ELSE [entry |-> entry, applied |-> FALSE]

\* if get KEYS[1] == ARGV[1] then pexpire KEYS[1] ARGV[2] else 0
ExtendScript(entry, value, ttl, time) ==
    IF entry # NoKey /\ entry.value = value
    THEN [entry |-> [value |-> entry.value, expire |-> time + ttl], applied |-> TRUE]
    ELSE [entry |-> entry, applied |-> FALSE]

\* lock()/unlock()/extend(): .invoke::<()>(..)? converts every reply of the
\* script to (), so a reply is Ok(()) whether or not the script applied
\* (test_lock_five locks one server five times and expects the lock).
InvokeUnit(applied) == "Ok"

\* ---- decisions of request() and unlock() ---------------------------------

\* redlock.rs:157  votes >= self.quorum && lock.expiration > SystemTime::now()
Acquired(votes, expiration, time) == votes >= Quorum /\ expiration > time

\* redlock.rs:170  errors > self.quorum
Doomed(errors) == errors > Quorum

\* redlock.rs:214  errors >= self.quorum
UnlockDoomed(errors) == errors >= Quorum

\* redlock.rs:120 and 190  while attempts < self.retry_count
RetryLeftInclusive(attempts) == attempts <= config.retry_count

RetryLeft(attempts) == attempts < config.retry_count

\* redlock.rs:181-184  the error of request() when the retry count is exceeded
ExceedRetryCountLastError(info) == "RedisError"

ExceedRetryCount(info) ==
    IF info = "Lock" THEN "UnableToLock" ELSE "UnableToExtend"

\* redlock.rs:34  self.expiration < SystemTime::now()
IsExpiredNever(expiration, time) == FALSE

IsExpired(expiration, time) == expiration < time

\* redlock.rs:130-133  the value of an attempt
AttemptValueFresh(info, resource_value, fresh) == fresh

AttemptValue(info, resource_value, fresh) ==
    IF info = "Lock" THEN fresh ELSE resource_value

\* thread_rng().gen_range(-1, 1): an integer of [-1, 1), that is -1 or 0
Draws == {-1, 0}

\* Duration::sub panics when the result would be negative
DurationSub(a, b) ==
    IF b > a THEN [panic |-> TRUE, ms |-> 0] ELSE [panic |-> FALSE, ms |-> a - b]

\* get_retry_timeout of the instance self, for the draw g:
\* jitter = retry_jitter * g; delay.add(jitter) or delay.sub(-jitter)
get_retry_timeout(self, g) ==
    LET jitter == self.retry_jitter * g
    IN  IF jitter >= 0 THEN [panic |-> FALSE, ms |-> self.retry_delay + jitter]
                       ELSE DurationSub(self.retry_delay, 0 - jitter)

\* ---- state ----------------------------------------------------------------

VARIABLES
    cfg,       \* the Config handed to Redlock::new
    redlock,   \* the Result of Redlock::new(cfg), NotBuilt before the call
    now,       \* SystemTime::now(), also the servers' clock
    store,     \* store[s][r]: the entry of key r on server s, or NoKey
    ncalls,    \* calls of the public API so far
    down,      \* down[c]: servers whose get_connection() fails for c's call
    pc,        \* pc[c]: where caller c stands
    req,       \* req[c]: the locals of Redlock::request
    unl,       \* unl[c]: the locals of Redlock::unlock
    wakeAt,    \* wakeAt[c]: end of the current thread::sleep
    lease,     \* lease[c]: the Lock the caller holds, or NoLease
    result,    \* result[c]: what the last call returned
    hist       \* hist[c]: observations of the current call (history only)

vars == <<cfg, redlock, now, store, ncalls, down, pc, req, unl, wakeAt, lease, result, hist>>

NoReq ==
    [ info |-> "None", resource_name |-> "", ttl |-> 0, attempts |-> 0, start |-> 0,
      value |-> <<>>, i |-> 0, waitings |-> 0, votes |-> 0, errors |-> 0,
      applied |-> 0 ]

NoUnl ==
    [ caller |-> "none", resource_name |-> "", value |-> <<>>, attempts |-> 0,
      i |-> 0, waitings |-> 0, votes |-> 0, errors |-> 0, applied |-> 0 ]

\* hist[c] records what the properties below speak of and the code does not
\* keep.  api: the entry point of the current call; prior: the Lock it was
\* called on; expired: whether that Lock had expiration < now at the call;
\* due: whether it had expiration <= now at the call; gap: how the latest
\* attempt of the call was reached, "first" from the entry of the call,
\* "slept" from the end of a thread::sleep, "none" straight from the end of
\* the attempt before it;
\* contacted: whether the call has sent a request to a server; releases: the
\* unlock calls made on lease[c]; fenced: whether an UNLOCK of the call met a
\* key holding another value; removed: whether an UNLOCK of the call has
\* deleted a key; ended: of the latest attempt of the call that
\* is over (attempts of the clean-up unlock inside request() excepted) its
\* number n, its transport errors, its applied replies, its end time and
\* whether the Lock of the attempt had expiration > now at that time.
NoEnded == [n |-> 0, errors |-> 0, applied |-> 0, at |-> 0, valid |-> FALSE]

NoHist ==
    [ api |-> "none", prior |-> NoLease, expired |-> FALSE, due |-> FALSE,
      gap |-> "first", contacted |-> FALSE,
      releases |-> 0, fenced |-> FALSE, removed |-> FALSE, ended |-> NoEnded ]

NewCall(h, api, prior, expired) ==
    [h EXCEPT !.api = api, !.prior = prior, !.expired = expired, !.due = FALSE, !.gap = "first",
              !.contacted = FALSE, !.fenced = FALSE, !.removed = FALSE,
              !.ended = NoEnded,
              !.releases = IF api = "unlock" THEN @ + 1 ELSE @]

Ended(g, time, valid) ==
    [n |-> g.attempts, errors |-> g.errors, applied |-> g.applied, at |-> time,
     valid |-> valid]

\* The state of the callers and servers before the first call.
Idle ==
    /\ now = 0
    /\ store = [s \in Servers |-> [r \in Resources |-> NoKey]]
    /\ ncalls = 0
    /\ down = [c \in Clients |-> {}]
    /\ pc = [c \in Clients |-> "idle"]
    /\ req = [c \in Clients |-> NoReq]
    /\ unl = [c \in Clients |-> NoUnl]
    /\ wakeAt = [c \in Clients |-> 0]
    /\ lease = [c \in Clients |-> NoLease]
    /\ result = [c \in Clients |-> "none"]
    /\ hist = [c \in Clients |-> NoHist]

\* The instance of ModelConfig has been constructed.
Init ==
    /\ cfg = ModelConfig
    /\ redlock = new(cfg)
    /\ Idle

\* Before the construction, for any Config of Configs.
InitNew ==
    /\ cfg \in Configs
    /\ redlock = NotBuilt
    /\ Idle

\* Redlock::new(cfg)
RedlockNew ==
    /\ redlock = NotBuilt
    /\ redlock' = new(cfg)
    /\ UNCHANGED <<cfg, now, store, ncalls, down, pc, req, unl, wakeAt, lease, result, hist>>

\* The calls modelled below are made on an instance with N clients: the
\* servers 1..N, quorum Quorum.
Built == redlock.tag = "Ok" /\ redlock.clients = N

\* thread::sleep(self.get_retry_timeout()) begins, to continue at pc `then`;
\* a panic of get_retry_timeout ends the caller's thread.
Sleep(c, then) ==
    \E g \in Draws :
        LET t == get_retry_timeout(redlock, g)
        IN  IF t.panic
            THEN /\ pc' = [pc EXCEPT ![c] = "panicked"]
                 /\ wakeAt' = wakeAt
            ELSE /\ pc' = [pc EXCEPT ![c] = then]
                 /\ wakeAt' = [wakeAt EXCEPT ![c] = now + t.ms]

\* util::get_random_string(32): a string no other acquisition has.  It is
\* named <<c, n>> for the least n that names no value still held by a key, a
\* Lock or a call in progress.
InUse ==
    {store[s][r].value : s \in Servers, r \in Resources}
        \cup {lease[c].value : c \in Clients}
        \cup {req[c].value : c \in Clients}
        \cup {unl[c].value : c \in Clients}

get_random_string(c) ==
    <<c, CHOOSE n \in 1..(Cardinality(InUse) + 1) :
            /\ <<c, n>> \notin InUse
            /\ \A m \in 1..(n - 1) : <<c, m>> \in InUse>>

\* ---- the environment -------------------------------------------------------

\* A millisecond passes; keys whose PX time is reached are gone.
Pass ==
    /\ now' = now + 1
    /\ store' = [s \in Servers |-> [r \in Resources |->
                    IF store[s][r] # NoKey /\ store[s][r].expire <= now + 1
                    THEN NoKey ELSE store[s][r]]]
    /\ UNCHANGED <<cfg, redlock, ncalls, down, pc, req, unl, wakeAt, lease, result, hist>>

Tick == now < MaxTime /\ Pass

\* Beyond MaxTime the clock goes on only as far as a thread::sleep needs to
\* end.
TickSleep ==
    /\ now >= MaxTime
    /\ \E c \in Clients : pc[c] \in {"sleep", "unlock_sleep"} /\ wakeAt[c] > now
    /\ Pass

\* ---- Redlock::unlock ----------------------------------------------------------

\* What follows the return of Redlock::unlock: Lock::unlock hands the result
\* to the caller; request() ignores it (`lock.unlock().is_ok();`) and sleeps
\* get_retry_timeout() before `continue 'attempts`.
UnlockReturns(c, res) ==
    IF unl[c].caller = "release"
    THEN /\ result' = [result EXCEPT ![c] = res]
         /\ pc' = [pc EXCEPT ![c] = "idle"]
         /\ wakeAt' = wakeAt
    ELSE /\ Sleep(c, "sleep")
         /\ result' = result

\* redlock.rs:190-195 and 224: the head of 'attempts in unlock, reached with
\* the locals u: a new attempt with fresh counters, or UnableToUnlock.
UnlockAttempts(c, u) ==
    IF RetryLeft(u.attempts)
    THEN /\ unl' = [unl EXCEPT ![c] =
                     [u EXCEPT !.attempts = u.attempts + 1,
                               !.waitings = N,
                               !.votes = 0,
                               !.errors = 0,
                               !.applied = 0,
                               !.i = 1]]
         /\ pc' = [pc EXCEPT ![c] = "unlock_request"]
         /\ result' = [result EXCEPT ![c] = IF u.caller = "release" THEN "none" ELSE @]
         /\ wakeAt' = wakeAt
    ELSE /\ unl' = [unl EXCEPT ![c] = u]
         /\ UnlockReturns(c, "UnableToUnlock")

\* redlock.rs:197-220: one iteration of the loop over the clients in unlock:
\* the request to server unl[c].i and everything done with its result.
UnlockRequest(c) ==
    /\ pc[c] = "unlock_request"
    /\ LET u == unl[c]
           s == u.i
           r == u.resource_name
           out == UnlockScript(store[s][r], u.value)
           request_result == IF s \in down[c] THEN "Err" ELSE InvokeUnit(out.applied)
           g == IF request_result = "Ok"
                THEN [u EXCEPT !.waitings = u.waitings - 1,
                               !.votes = u.votes + 1,
                               !.applied = IF out.applied THEN @ + 1 ELSE @]
                ELSE [u EXCEPT !.errors = u.errors + 1]
           outcome ==
               IF request_result = "Ok"
               THEN IF g.waitings > 0 THEN "continue"
                    ELSE IF g.votes >= Quorum THEN "return"
                    ELSE "continue"
               ELSE IF UnlockDoomed(g.errors) THEN "sleep" ELSE "continue"
       IN  /\ store' = IF s \in down[c] THEN store
                       ELSE [store EXCEPT ![s][r] = out.entry]
           /\ hist' = [hist EXCEPT
                         ![c].contacted = TRUE,
                         ![c].ended = IF /\ u.caller = "release"
                                         /\ (outcome # "continue" \/ u.i = N)
                                      THEN Ended(g, now, TRUE) ELSE @,
                         ![c].gap = IF /\ u.caller = "release"
                                       /\ outcome = "continue" /\ u.i = N
                                       /\ g.attempts < config.retry_count
                                    THEN "none" ELSE @,
                         ![c].removed = @ \/ (s \notin down[c] /\ out.applied),
                         ![c].fenced = @ \/ ( /\ s \notin down[c]
                                              /\ store[s][r] # NoKey
                                              /\ store[s][r].value # u.value )]
           /\ CASE outcome = "return" ->
                     /\ unl' = [unl EXCEPT ![c] = g]
                     /\ UnlockReturns(c, "Ok")
                [] outcome = "sleep" ->
                     /\ unl' = [unl EXCEPT ![c] = g]
                     /\ Sleep(c, "unlock_sleep")
                     /\ result' = result
                [] outcome = "continue" /\ u.i < N ->
                     /\ unl' = [unl EXCEPT ![c] = [g EXCEPT !.i = u.i + 1]]
                     /\ UNCHANGED <<pc, result, wakeAt>>
                [] outcome = "continue" /\ u.i = N ->
                     \* the loop over the clients is over: back to the head
                     UnlockAttempts(c, g)
    /\ UNCHANGED <<cfg, redlock, now, ncalls, down, req, lease>>

\* ---- Redlock::request ---------------------------------------------------------

\* redlock.rs:120-133 and 181-184: the head of 'attempts, reached with the
\* locals f.  Either a new attempt starts (start is sampled, the counters are
\* reset, the value is chosen) or the retry count is exceeded and the error
\* is returned.
Attempts(c, f) ==
    IF RetryLeft(f.attempts)
    THEN /\ req' = [req EXCEPT ![c] =
                     [f EXCEPT !.attempts = f.attempts + 1,
                               !.start = now,
                               !.waitings = N,
                               !.votes = 0,
                               !.errors = 0,
                               !.applied = 0,
                               !.value = AttemptValue(f.info, f.value,
                                                      get_random_string(c)),
                               !.i = 1]]
         /\ pc' = [pc EXCEPT ![c] = "request"]
         /\ result' = [result EXCEPT ![c] = "none"]
    ELSE /\ req' = [req EXCEPT ![c] = f]
         /\ result' = [result EXCEPT ![c] = ExceedRetryCount(f.info)]
         /\ pc' = [pc EXCEPT ![c] = "idle"]

\* redlock.rs:135-177: one iteration of `for client in &self.clients`: the
\* request to server req[c].i and everything done with its result.
Request(c) ==
    /\ pc[c] = "request"
    /\ LET f == req[c]
           s == f.i
           r == f.resource_name
           ms == num_milliseconds(f.ttl)
           out == IF f.info = "Lock"
                  THEN LockScript(store[s][r], f.value, ms, now)
                  ELSE ExtendScript(store[s][r], f.value, ms, now)
           request_result == IF s \in down[c] THEN "Err" ELSE InvokeUnit(out.applied)
           lock == [resource_name |-> r, value |-> f.value,
                    expiration |-> Expiration(f.start, f.ttl)]
           g == IF request_result = "Ok"
                THEN [f EXCEPT !.waitings = f.waitings - 1,
                               !.votes = f.votes + 1,
                               !.applied = IF out.applied THEN @ + 1 ELSE @]
                ELSE [f EXCEPT !.errors = f.errors + 1]
           outcome ==
               IF request_result = "Ok"
               THEN IF g.waitings > 0 THEN "continue"
                    ELSE IF Acquired(g.votes, lock.expiration, now) THEN "return"
                    ELSE "release"
               ELSE IF Doomed(g.errors) THEN "release" ELSE "continue"
       IN  /\ store' = IF s \in down[c] THEN store
                       ELSE [store EXCEPT ![s][r] = out.entry]
           /\ hist' = [hist EXCEPT
                         ![c].contacted = TRUE,
                         ![c].ended = IF outcome # "continue" \/ f.i = N
                                      THEN Ended(g, now, lock.expiration > now) ELSE @,
                         ![c].gap = IF /\ outcome = "continue" /\ f.i = N
                                       /\ g.attempts < config.retry_count
                                    THEN "none" ELSE @,
                         ![c].releases = IF outcome = "return" THEN 0 ELSE @]
           /\ CASE outcome = "return" ->
                     /\ req' = [req EXCEPT ![c] = g]
                     /\ lease' = [lease EXCEPT ![c] = lock]
                     /\ result' = [result EXCEPT ![c] = "Lease"]
                     /\ pc' = [pc EXCEPT ![c] = "idle"]
                     /\ UNCHANGED <<unl, wakeAt>>
                [] outcome = "release" ->
                     \* lock.unlock(): Redlock::unlock with the attempt's value
                     /\ req' = [req EXCEPT ![c] = g]
                     /\ UnlockAttempts(c, [NoUnl EXCEPT !.caller = "cleanup",
                                                        !.resource_name = r,
                                                        !.value = f.value])
                     /\ lease' = lease
                [] outcome = "continue" /\ f.i < N ->
                     /\ req' = [req EXCEPT ![c] = [g EXCEPT !.i = f.i + 1]]
                     /\ UNCHANGED <<pc, lease, result, unl, wakeAt>>
                [] outcome = "continue" /\ f.i = N ->
                     \* the loop over the clients is over without a return
                     \* or a `continue 'attempts`: back to the head at once
                     /\ Attempts(c, g)
                     /\ UNCHANGED <<lease, unl, wakeAt>>
    /\ UNCHANGED <<cfg, redlock, now, ncalls, down>>

\* thread::sleep(self.get_retry_timeout()) ends, `continue 'attempts`
Wake(c) ==
    /\ pc[c] \in {"sleep", "unlock_sleep"}
    /\ now >= wakeAt[c]
    /\ IF pc[c] = "sleep"
       THEN /\ Attempts(c, req[c])
            /\ unl' = [unl EXCEPT ![c] = NoUnl]
            /\ wakeAt' = [wakeAt EXCEPT ![c] = 0]
            /\ hist' = [hist EXCEPT ![c].gap =
                           IF req[c].attempts < config.retry_count THEN "slept" ELSE @]
       ELSE /\ UnlockAttempts(c, unl[c])
            /\ req' = req
            /\ hist' = [hist EXCEPT ![c].gap =
                           IF /\ unl[c].caller = "release"
                              /\ unl[c].attempts < config.retry_count
                           THEN "slept" ELSE @]
    /\ UNCHANGED <<cfg, redlock, now, store, ncalls, down, lease>>

\* ---- the public API ----------------------------------------------------------

\* Redlock::lock -> request(RequestInfo::Lock, ..)
Lock(c, r, ttl, outage) ==
    /\ Built
    /\ pc[c] = "idle"
    /\ ncalls < MaxCalls
    /\ ncalls' = ncalls + 1
    /\ down' = [down EXCEPT ![c] = outage]
    /\ Attempts(c, [NoReq EXCEPT !.info = "Lock", !.resource_name = r, !.ttl = ttl])
    /\ unl' = [unl EXCEPT ![c] = NoUnl]
    /\ hist' = [hist EXCEPT ![c] = NewCall(@, "lock", NoLease, FALSE)]
    /\ UNCHANGED <<cfg, redlock, now, store, wakeAt, lease>>

\* Lock::extend: LockExpired without a request, else request(Extend {value})
LockExtend(c, ttl, outage) ==
    /\ Built
    /\ pc[c] = "idle"
    /\ ncalls < MaxCalls
    /\ lease[c] # NoLease
    /\ ncalls' = ncalls + 1
    /\ down' = [down EXCEPT ![c] = outage]
    /\ unl' = [unl EXCEPT ![c] = NoUnl]
    /\ hist' = [hist EXCEPT ![c] =
                   [NewCall(@, "extend", lease[c], lease[c].expiration < now)
                       EXCEPT !.due = lease[c].expiration <= now]]
    /\ IF IsExpired(lease[c].expiration, now)
       THEN /\ result' = [result EXCEPT ![c] = "LockExpired"]
            /\ req' = [req EXCEPT ![c] = NoReq]
            /\ pc' = pc
       ELSE Attempts(c, [NoReq EXCEPT !.info = "Extend",
                                      !.resource_name = lease[c].resource_name,
                                      !.value = lease[c].value, !.ttl = ttl])
    /\ UNCHANGED <<cfg, redlock, now, store, wakeAt, lease>>

\* Lock::unlock -> Redlock::unlock(resource_name, value)
LockUnlock(c, outage) ==
    /\ Built
    /\ pc[c] = "idle"
    /\ ncalls < MaxCalls
    /\ lease[c] # NoLease
    /\ ncalls' = ncalls + 1
    /\ down' = [down EXCEPT ![c] = outage]
    /\ req' = [req EXCEPT ![c] = NoReq]
    /\ hist' = [hist EXCEPT ![c] = NewCall(@, "unlock", lease[c], FALSE)]
    /\ UnlockAttempts(c, [NoUnl EXCEPT !.caller = "release",
                                       !.resource_name = lease[c].resource_name,
                                       !.value = lease[c].value])
    /\ UNCHANGED <<cfg, redlock, now, store, lease>>

\* ---- the specification ------------------------------------------------------------

\* One caller, whose calls take any ttl of TTLs and meet any outage of Outages.
Next ==
    \/ Tick
    \/ \E c \in Callers, r \in Resources, ttl \in TTLs, o \in Outages : Lock(c, r, ttl, o)
    \/ \E c \in Callers, ttl \in TTLs, o \in Outages : LockExtend(c, ttl, o)
    \/ \E c \in Callers, o \in Outages : LockUnlock(c, o)
    \/ \E c \in Callers : Request(c)
    \/ \E c \in Callers : UnlockRequest(c)
    \/ \E c \in Callers : Wake(c)

Spec == Init /\ [][Next]_vars

\* Two callers contending, every server reachable.
NextContend ==
    \/ Tick
    \/ \E c \in Clients, r \in Resources, ttl \in ContendTTLs : Lock(c, r, ttl, {})
    \/ \E c \in Clients, ttl \in ContendTTLs : LockExtend(c, ttl, {})
    \/ \E c \in Clients : LockUnlock(c, {})
    \/ \E c \in Clients : Request(c)
    \/ \E c \in Clients : UnlockRequest(c)
    \/ \E c \in Clients : Wake(c)

SpecContend == Init /\ [][NextContend]_vars

\* Construction from any Config of Configs, then the calls of one caller on
\* the instance, every server reachable or none.
NextNew ==
    \/ RedlockNew
    \/ Tick
    \/ \E c \in Callers, r \in Resources, ttl \in ContendTTLs, o \in {{}, Servers} :
           Lock(c, r, ttl, o)
    \/ \E c \in Callers, ttl \in ContendTTLs, o \in {{}, Servers} : LockExtend(c, ttl, o)
    \/ \E c \in Callers, o \in {{}, Servers} : LockUnlock(c, o)
    \/ \E c \in Callers : Request(c)
    \/ \E c \in Callers : UnlockRequest(c)
    \/ \E c \in Callers : Wake(c)

SpecNew == InitNew /\ [][NextNew]_vars

\* The calls of one caller, with one ttl and any outage of Outages, when
\* every request to a server returns, every thread::sleep ends and the clock
\* goes on.
NextLive ==
    \/ Tick
    \/ TickSleep
    \/ \E c \in Callers, r \in Resources, ttl \in ContendTTLs, o \in Outages : Lock(c, r, ttl, o)
    \/ \E c \in Callers, ttl \in ContendTTLs, o \in Outages : LockExtend(c, ttl, o)
    \/ \E c \in Callers, o \in Outages : LockUnlock(c, o)
    \/ \E c \in Callers : Request(c)
    \/ \E c \in Callers : UnlockRequest(c)
    \/ \E c \in Callers : Wake(c)

SpecLive ==
    /\ Init
    /\ [][NextLive]_vars
    /\ WF_vars(Tick)
    /\ WF_vars(TickSleep)
    /\ \A c \in Callers : /\ WF_vars(Request(c))
                          /\ WF_vars(UnlockRequest(c))
                          /\ WF_vars(Wake(c))

\* ---- properties ----------------------------------------------------------------

\* c holds a Lock: one was returned to it, it has not called unlock on it,
\* and its expiration has not passed.
Holds(c) ==
    /\ lease[c] # NoLease
    /\ hist[c].releases = 0
    /\ lease[c].expiration > now

Returned(c, api) == hist[c].api = api /\ pc[c] = "idle"


\* C1 -- Mutual exclusion: no two callers hold, at the same time, a Lock on
\* the same resource whose expiration has not passed (every server being
\* reachable here).
C1_MutualExclusion ==
    \A c1, c2 \in Clients :
        (c1 # c2 /\ Holds(c1) /\ Holds(c2))
            => lease[c1].resource_name # lease[c2].resource_name

\* C2 -- Quorum lower bound: a lock or extend that returns a Lock has seen,
\* in the attempt that succeeded, at least floor(N/2)+1 replies of servers
\* where the script applied.
C2_QuorumOfApplied ==
    \A c \in Clients :
        (pc[c] = "idle" /\ result[c] = "Lease") => req[c].applied >= (N \div 2) + 1

\* C3 -- Tolerance of a minority of failed servers: an attempt of lock in
\* which at most floor((N-1)/2) servers answer with a transport error, all
\* the others apply LOCK, and which ends before start + ttl - drift, makes
\* lock return a Lock.
C3_MinorityTolerated ==
    \A c \in Clients :
        ( /\ hist[c].api = "lock"
          /\ hist[c].ended.n > 0
          /\ 2 * hist[c].ended.errors <= N - 1
          /\ hist[c].ended.applied = N - hist[c].ended.errors
          /\ hist[c].ended.valid )
            => (pc[c] = "idle" /\ result[c] = "Lease")

\* C4 -- Release succeeds on a quorum: once an attempt of unlock is over in
\* which at least quorum servers applied UNLOCK, unlock has returned Ok, also
\* when the other servers of the attempt returned transport errors.
C4_ReleaseOnQuorum ==
    \A c \in Clients :
        ( /\ hist[c].api = "unlock"
          /\ hist[c].ended.n > 0
          /\ hist[c].ended.applied >= (N \div 2) + 1 )
            => (pc[c] = "idle" /\ result[c] = "Ok")

\* C5 -- Round trip: the unlock called on a Lock that lock returned (the
\* first unlock on it) returns Ok, and when it has returned the key is absent
\* on every server the caller can reach.
C5_RoundTrip ==
    \A c \in Clients :
        ( /\ Returned(c, "unlock")
          /\ hist[c].releases = 1 )
            => /\ result[c] = "Ok"
               /\ \A s \in Servers \ down[c] :
                      store[s][hist[c].prior.resource_name] = NoKey

\* C6 -- Idempotence of release: a second unlock on the same Lock, to which
\* every server answers not-applied, returns UnableToUnlock.
C6_SecondReleaseFails ==
    \A c \in Clients :
        ( /\ Returned(c, "unlock")
          /\ hist[c].releases = 2
          /\ hist[c].ended.n > 0
          /\ hist[c].ended.applied = 0
          /\ hist[c].ended.errors = 0 )
            => result[c] = "UnableToUnlock"

\* C7 -- Value fencing: a key disappears from a server, other than by its
\* PX time, only in a step of an UNLOCK that was called with exactly the
\* value the key held, and that value was drawn by the caller itself: no
\* caller removes a key that another caller's acquisition has set.
C7_ValueFencing ==
    [][ \A s \in Servers, r \in Resources :
            (now' = now /\ store[s][r] # NoKey /\ store'[s][r] # store[s][r]
                        /\ store'[s][r].value # store[s][r].value)
                => \E c \in Clients :
                       /\ pc[c] = "unlock_request"
                       /\ unl[c].i = s
                       /\ unl[c].resource_name = r
                       /\ unl[c].value = store[s][r].value
                       /\ store[s][r].value[1] = c
                       /\ store'[s][r] = NoKey ]_vars

\* An UNLOCK has met a key that holds another caller's value, and the key is
\* still there.
C7_Witness ==
    \E c \in Clients, s \in Servers, r \in Resources :
        /\ hist[c].fenced
        /\ unl[c].i > s
        /\ store[s][r] # NoKey
        /\ store[s][r].value[1] # c

\* drift of the claim: round(drift_factor * ttl_ms) + 2, rounding half up
ClaimedDrift(ttl) ==
    ((2 * config.drift_factor.num * ttl + config.drift_factor.den)
        \div (2 * config.drift_factor.den)) + 2

\* C8 -- Lease validity bound: a Lock returned by lock or extend has
\* expiration = start + ttl - (round(drift_factor * ttl) + 2) for the start
\* of the attempt that succeeded; start is not later than the end of that
\* attempt; at that end the expiration is strictly later than now, and
\* earlier than now + ttl.
C8_ValidityBound ==
    \A c \in Clients :
        (pc[c] = "idle" /\ result[c] = "Lease")
            => /\ lease[c].expiration = req[c].start + req[c].ttl - ClaimedDrift(req[c].ttl)
               /\ req[c].start <= hist[c].ended.at
               /\ lease[c].expiration > hist[c].ended.at
               /\ lease[c].expiration < hist[c].ended.at + req[c].ttl

\* extend has returned a Lock for a ttl whose drift_factor * ttl is a half
C8_Witness ==
    \E c \in Clients :
        /\ Returned(c, "extend")
        /\ result[c] = "Lease"
        /\ 2 * config.drift_factor.num * req[c].ttl = config.drift_factor.den

\* C9 -- Expired extend: extend called on a Lock with expiration < now has
\* returned LockExpired and has sent no request to any server.
C9_ExpiredExtend ==
    \A c \in Clients :
        (hist[c].api = "extend" /\ hist[c].expired)
            => /\ pc[c] = "idle"
               /\ result[c] = "LockExpired"
               /\ ~hist[c].contacted

C9_Witness ==
    \E c \in Clients :
        /\ hist[c].api = "extend"
        /\ hist[c].expired
        /\ result[c] = "LockExpired"
        /\ \E s \in Servers, r \in Resources : store[s][r] # NoKey

C11_JitterValidation ==
    (redlock # NotBuilt /\ cfg.retry_jitter > cfg.retry_delay)
        => /\ redlock.tag # "Ok"
           /\ ( /\ cfg.addrs # <<>>
                /\ \A i \in 1..Len(cfg.addrs) : cfg.addrs[i] = "url" )
                 => redlock.tag = "DelayJitterError"

\* C12 -- Construction invariant: new(config) with an empty server list
\* returns NoServerError; an instance that is constructed has N >= 1 clients,
\* one per address, and quorum = floor(N/2) + 1, that is 2*(quorum-1) <= N <
\* 2*quorum; once constructed, the instance and its configuration are the
\* same after every step of every lock, extend and unlock call.
C12_Construction ==
    /\ [](redlock # NotBuilt =>
            /\ cfg.addrs = <<>> => redlock.tag = "NoServerError"
            /\ redlock.tag = "Ok" =>
                  /\ redlock.clients >= 1
                  /\ redlock.clients = Len(cfg.addrs)
                  /\ 2 * redlock.quorum > redlock.clients
                  /\ 2 * (redlock.quorum - 1) <= redlock.clients
                  /\ redlock.retry_count = cfg.retry_count
                  /\ redlock.retry_delay = cfg.retry_delay
                  /\ redlock.retry_jitter = cfg.retry_jitter
                  /\ redlock.drift_factor = cfg.drift_factor)
    /\ [][redlock # NotBuilt => (redlock' = redlock /\ cfg' = cfg)]_vars

\* the instance was constructed, a lock on it returned a Lock and an unlock
\* of that Lock has returned
C12_Witness ==
    \E c \in Clients :
        /\ Built
        /\ Returned(c, "unlock")
        /\ hist[c].releases = 1

\* C13 -- Error surface: whatever servers fail, lock returns only a Lock or
\* UnableToLock, extend only a Lock, LockExpired or UnableToExtend, unlock
\* only Ok or UnableToUnlock: the transport error of a server is never what
\* a call returns.
C13_ErrorSurface ==
    \A c \in Clients :
        pc[c] = "idle" =>
            /\ hist[c].api = "lock" => result[c] \in {"Lease", "UnableToLock"}
            /\ hist[c].api = "extend" =>
                   result[c] \in {"Lease", "LockExpired", "UnableToExtend"}
            /\ hist[c].api = "unlock" => result[c] \in {"Ok", "UnableToUnlock"}

\* an extend whose last attempt met a transport error on every server has
\* returned
C13_Witness ==
    \E c \in Clients :
        /\ Returned(c, "extend")
        /\ down[c] = Servers
        /\ hist[c].ended.errors = N
        /\ result[c] = "UnableToExtend"

\* C14 -- Extend at the expiration instant: extend called on a Lock at a time
\* now >= expiration, now = expiration included, has returned LockExpired
\* and has sent no request to any server.
C14_ExtendAtExpiration ==
    \A c \in Clients :
        (hist[c].api = "extend" /\ hist[c].due)
            => /\ pc[c] = "idle"
               /\ result[c] = "LockExpired"
               /\ ~hist[c].contacted

\* C15 -- Clean-up of a failed attempt: when an attempt of lock is left
\* without a Lock (the next attempt starts, or the call returns
\* UnableToLock), UNLOCK with the attempt's value has been run: no server the
\* caller can reach holds the key with the value of the attempt that is left.
C15_CleanupOfFailedAttempt ==
    [][ \A c \in Clients :
            ( /\ hist[c].api = "lock"
              /\ pc[c] \in {"request", "sleep"}
              /\ \/ req'[c].attempts > req[c].attempts
                 \/ pc'[c] = "idle" /\ result'[c] = "UnableToLock" )
                => \A s \in Servers \ down[c] :
                       store'[s][req[c].resource_name].value # req[c].value ]_vars

\* C16 -- Backoff ordering: in lock, extend and unlock the first attempt
\* starts without a sleep and every later attempt starts at the end of a
\* sleep taken after the attempt before it: no attempt follows another
\* without a sleep between them.
C16_BackoffOrdering ==
    \A c \in Clients :
        /\ pc[c] = "request" =>
              IF req[c].attempts = 1 THEN hist[c].gap = "first"
                                     ELSE hist[c].gap = "slept"
        /\ (pc[c] = "unlock_request" /\ unl[c].caller = "release") =>
              IF unl[c].attempts = 1 THEN hist[c].gap = "first"
                                     ELSE hist[c].gap = "slept"

\* C17 -- Early abort threshold: in lock, extend and unlock alike an attempt
\* is abandoned on a transport error exactly when the transport errors of
\* the attempt exceed quorum: an attempt abandoned on an error has errors >
\* quorum, an attempt still running has errors <= quorum, and an abandoned
\* attempt could no longer have reached quorum replies with the servers left.
C17_EarlyAbort ==
    \A c \in Clients :
        /\ ( /\ pc[c] \in {"unlock_request", "unlock_sleep", "sleep"}
             /\ unl[c].caller # "release"
             /\ req[c].errors > 0 )
               => /\ req[c].errors > (N \div 2) + 1
                  /\ req[c].votes + (N - req[c].i) < (N \div 2) + 1
        /\ pc[c] = "request" => req[c].errors <= (N \div 2) + 1
        /\ (pc[c] = "unlock_sleep" /\ unl[c].caller = "release")
               => /\ unl[c].errors > (N \div 2) + 1
                  /\ unl[c].votes + (N - unl[c].i) < (N \div 2) + 1
        /\ (pc[c] = "unlock_request" /\ unl[c].caller = "release")
               => unl[c].errors <= (N \div 2) + 1

C19_BackoffBounds ==
    /\ [](\A c \in Clients : pc[c] # "panicked")
    /\ [][ \A c \in Clients :
              ( /\ pc[c] \notin {"sleep", "unlock_sleep"}
                /\ pc'[c] \in {"sleep", "unlock_sleep"} )
                  => LET ms == wakeAt'[c] - now
                         d == redlock.retry_delay
                         j == redlock.retry_jitter
                     IN  /\ ms >= 0
                         /\ ms >= d - j
                         /\ IF j = 0 THEN ms = d ELSE ms < d + j ]_vars

\* C20 -- A failed extend leaves the lease in place: as long as extend has
\* not returned a Lock (an attempt was abandoned or failed the validity
\* check, or the call has returned UnableToExtend or LockExpired), the call
\* has deleted no key: the keys of the original Lock go only by an unlock
\* call or by their PX time.
C20_FailedExtendKeepsLease ==
    \A c \in Clients :
        (hist[c].api = "extend" /\ ~(pc[c] = "idle" /\ result[c] = "Lease"))
            => ~hist[c].removed

====
